---- MODULE Spec2Model ----
(***************************************************************************)
(* The file-backed user store of chirpy (package database,                 *)
(* database_user.go): one JSON document holding map[int]User, loaded and   *)
(* rewritten whole by every operation under db.mux.                        *)
(***************************************************************************)
EXTENDS Integers, Sequences, FiniteSets, TLC

\* ------------------------------------------------------------- bounds
MaxUsers == 2
NumProcs == 2

Procs == 1..NumProcs

\* ------------------------------------------------------------- inputs
\* []byte values are sequences of bytes; a nil slice is the empty sequence.
NilBytes == <<>>
Emails == {"a", "b"}
Passwords == {<<7>>, <<200, 9>>}
Tokens == {"t"}
IDs == (0 - 1)..(MaxUsers + 1)

\* ------------------------------------------------------------- records
\* User{}: the zero value of the struct.
EmptyUser ==
  [Email |-> "", ID |-> 0, Password |-> NilBytes, RefreshToken |-> "", IsChirpyRed |-> FALSE]

\* DBUserStructure{Users: make(map[int]User)}: a map with no key.
EmptyDB == [k \in {} |-> EmptyUser]

\* dbStructure.Users[ID] read as a value: the zero value for an absent key.
MapGet(m, k) == IF k \in DOMAIN m THEN m[k] ELSE EmptyUser

\* dbStructure.Users[k] = u
MapPut(m, k, u) == [x \in DOMAIN m \cup {k} |-> IF x = k THEN u ELSE m[x]]

\* ------------------------------------------------------------- encoding/json
\* strconv of a map key: encoding/json writes an int key as its decimal text.
Digits == <<"0", "1", "2", "3", "4", "5", "6", "7", "8", "9">>

RECURSIVE Itoa(_)
Itoa(i) ==
  IF i < 0 THEN "-" \o Itoa(0 - i)
  ELSE IF i < 10 THEN Digits[i + 1]
  ELSE Itoa(i \div 10) \o Digits[(i % 10) + 1]

KeyRange == (0 - 1)..(MaxUsers + 2)
Atoi(s) == CHOOSE i \in KeyRange : Itoa(i) = s

\* base64.StdEncoding of a []byte, as the sequence of 6-bit values; 64 is '='.
Pad == 64

RECURSIVE B64Enc(_)
B64Enc(b) ==
  IF Len(b) = 0 THEN <<>>
  ELSE IF Len(b) = 1 THEN <<b[1] \div 4, (b[1] % 4) * 16, Pad, Pad>>
  ELSE IF Len(b) = 2
    THEN <<b[1] \div 4, (b[1] % 4) * 16 + (b[2] \div 16), (b[2] % 16) * 4, Pad>>
  ELSE <<b[1] \div 4, (b[1] % 4) * 16 + (b[2] \div 16),
         (b[2] % 16) * 4 + (b[3] \div 64), b[3] % 64>>
       \o B64Enc(SubSeq(b, 4, Len(b)))

RECURSIVE B64Dec(_)
B64Dec(s) ==
  IF Len(s) = 0 THEN <<>>
  ELSE
    LET b1 == s[1] * 4 + (s[2] \div 16)
        b2 == (s[2] % 16) * 16 + (s[3] \div 4)
        b3 == (s[3] % 4) * 64 + s[4]
    IN  IF s[3] = Pad THEN <<b1>>
        ELSE IF s[4] = Pad THEN <<b1, b2>>
        ELSE <<b1, b2, b3>> \o B64Dec(SubSeq(s, 5, Len(s)))

\* One User as its JSON object (the struct tags name the fields).
MarshalUser(u) ==
  [email |-> u.Email, id |-> u.ID, password |-> B64Enc(u.Password),
   refreshToken |-> u.RefreshToken, is_chirpy_red |-> u.IsChirpyRed]

UnmarshalUser(j) ==
  [Email |-> j.email, ID |-> j.id, Password |-> B64Dec(j.password),
   RefreshToken |-> j.refreshToken, IsChirpyRed |-> j.is_chirpy_red]

\* json.Marshal(dbUserStructure): {"users": {"<key>": {...}, ...}}
Marshal(users) ==
  [users |-> [s \in {Itoa(k) : k \in DOMAIN users} |-> MarshalUser(users[Atoi(s)])]]

\* json.Unmarshal(file, &database)
Unmarshal(doc) ==
  [k \in {Atoi(s) : s \in DOMAIN doc.users} |-> UnmarshalUser(doc.users[Itoa(k)])]

\* ------------------------------------------------------------- the file
\* The backing file: missing, unparsable, or holding a JSON document.
NoDoc == [users |-> [s \in {} |-> MarshalUser(EmptyUser)]]
MissingFile == [state |-> "missing", doc |-> NoDoc]
CorruptFile == [state |-> "corrupt", doc |-> NoDoc]
OkFile(users) == [state |-> "ok", doc |-> Marshal(users)]

\* What os.WriteFile can do: write everything, fail before touching the file,
\* or fail after truncating it.
WriteOutcomes == {"ok", "failKeep", "failTrunc"}


\* os.WriteFile(db.path, json.Marshal(dbUserStructure), 0644) on file f.
WriteFile(f, users, outcome) ==
  CASE outcome = "ok" -> OkFile(users)
    [] outcome = "failKeep" -> f
    [] outcome = "failTrunc" -> CorruptFile

\* ------------------------------------------------------------- sort.Slice
\* sort.Slice(users, func(i, j) { return users[i].ID < users[j].ID })
RECURSIVE InsertByID(_, _)
InsertByID(u, s) ==
  IF Len(s) = 0 THEN <<u>>
  ELSE IF u.ID < s[1].ID THEN <<u>> \o s
  ELSE <<s[1]>> \o InsertByID(u, Tail(s))

RECURSIVE SortByID(_)
SortByID(s) == IF Len(s) = 0 THEN <<>> ELSE InsertByID(s[1], SortByID(Tail(s)))

\* The orders in which `range dbStructure.Users` may visit the keys of a map.
RangeOrders(m) ==
  {o \in [1..Cardinality(DOMAIN m) -> DOMAIN m] :
     \A i, j \in DOMAIN o : i # j => o[i] # o[j]}

\* ------------------------------------------------------------- the operations' bodies
\* A slip: the count of the records plus two.
NextIDSkip(users) == Cardinality(DOMAIN users) + 2

\* A slip: the count of the records taken as the next ID.
NextIDOffByOne(users) == Cardinality(DOMAIN users)

\* nextID := len(dbStructure.Users) + 1
NextID(users) == Cardinality(DOMAIN users) + 1

\* A slip: the record built without its ID.
CreateUsersNoID(old, body, password) ==
  MapPut(old, NextID(old), [EmptyUser EXCEPT !.Email = body, !.Password = password])

\* dbStructure.Users[nextID] = User{Email: body, ID: nextID, Password: password}
CreateUsers(old, body, password) ==
  MapPut(old, NextID(old),
         [EmptyUser EXCEPT !.Email = body, !.ID = NextID(old), !.Password = password])

\* A slip: the record rebuilt from the arguments, as CreateUser builds it.
UpdateUsersFresh(old, ID, body, password) ==
  IF ID \in DOMAIN old
    THEN MapPut(old, ID, [EmptyUser EXCEPT !.Email = body, !.ID = ID, !.Password = password])
    ELSE old

\* A slip: the record stored whether or not the key was found.
UpdateUsersUpsert(old, ID, body, password) ==
  MapPut(old, ID, [MapGet(old, ID) EXCEPT !.Email = body, !.Password = password])

\* if user, ok := dbStructure.Users[ID]; ok { user.Email = body; user.Password = password; ... }
UpdateUsers(old, ID, body, password) ==
  IF ID \in DOMAIN old
    THEN MapPut(old, ID, [old[ID] EXCEPT !.Email = body, !.Password = password])
    ELSE old

\* A slip: the flag flipped instead of set.
UpgradeUsersToggle(old, ID) ==
  MapPut(old, ID, [old[ID] EXCEPT !.IsChirpyRed = ~old[ID].IsChirpyRed])

\* user.IsChirpyRed = true; dbStructure.Users[ID] = user   (ID is a key of old)
UpgradeUsers(old, ID) == MapPut(old, ID, [old[ID] EXCEPT !.IsChirpyRed = TRUE])

\* A slip: the token cleared on the copy and the copy never stored back.
RevokeUsersNoStore(old, ID) == old

\* if user, ok := dbStructure.Users[ID]; ok { user.RefreshToken = ""; ... }
RevokeUsers(old, ID) ==
  IF ID \in DOMAIN old
    THEN MapPut(old, ID, [old[ID] EXCEPT !.RefreshToken = ""])
    ELSE old

\* A slip: the token stored under the key whether or not it was found.
StoreUsersUpsert(old, ID, token) ==
  MapPut(old, ID, [MapGet(old, ID) EXCEPT !.RefreshToken = token])

\* if user, ok := dbStructure.Users[ID]; ok { user.RefreshToken = token; ... }
StoreUsers(old, ID, token) ==
  IF ID \in DOMAIN old
    THEN MapPut(old, ID, [old[ID] EXCEPT !.RefreshToken = token])
    ELSE old

\* A slip: the sort left out.
RangedUsersUnsorted(m, o) == [i \in DOMAIN o |-> m[o[i]]]

\* for _, user := range dbStructure.Users { users = append(users, user) }, the
\* keys visited in order o, then the sort.
RangedUsers(m, o) == SortByID([i \in DOMAIN o |-> m[o[i]]])

\* ------------------------------------------------------------- calls
NoCall == [op |-> "none", ID |-> 0, body |-> "", password |-> NilBytes, token |-> ""]

CallsOver(ids, emails, passwords, tokens) ==
  {[NoCall EXCEPT !.op = "CreateUser", !.body = e, !.password = p] :
     e \in emails, p \in passwords}
  \cup {[NoCall EXCEPT !.op = "GetUser"]}
  \cup {[NoCall EXCEPT !.op = "GetUserByID", !.ID = i] : i \in ids}
  \cup {[NoCall EXCEPT !.op = "UpdateUserDB", !.ID = i, !.body = e, !.password = p] :
          i \in ids, e \in emails, p \in passwords}
  \cup {[NoCall EXCEPT !.op = "UpgradeUser", !.ID = i] : i \in ids}
  \cup {[NoCall EXCEPT !.op = "RevokeToken", !.ID = i] : i \in ids}
  \cup {[NoCall EXCEPT !.op = "StoreToken", !.ID = i, !.token = t] :
          i \in ids, t \in tokens}

\* What a single caller may ask for.
Calls == CallsOver(IDs, Emails, Passwords, Tokens)

\* What each of several concurrent callers may ask for: the operations on the
\* first record, an update telling itself apart from the creation.
ConcCalls ==
  {c \in Calls :
     /\ c.op \in {"CreateUser", "GetUser"} \/ c.ID = 1
     /\ c.op = "CreateUser" => c.body = "a" /\ c.password = <<7>>
     /\ c.op = "UpdateUserDB" => c.body = "b" /\ c.password = <<200, 9>>}

NoRet == [user |-> EmptyUser, users |-> <<>>, err |-> "none"]
RetUser(u) == [user |-> u, users |-> <<>>, err |-> "nil"]
RetUsers(us) == [user |-> EmptyUser, users |-> us, err |-> "nil"]
RetErr(e) == [user |-> EmptyUser, users |-> <<>>, err |-> e]

\* A slip: the bound compared with <=.
IndexByIDStrict(users, ID) ==
  IF Len(users) <= ID \/ ID <= 0
    THEN [RetErr("InvalidArgument") EXCEPT !.users = users]
    ELSE [RetUser(users[ID]) EXCEPT !.users = users]

\* if len(users) < ID || ID <= 0 { return User{}, errors.New("invalid ID") }
\* return users[ID-1], nil        (a Go slice counts from 0, a sequence from 1)
IndexByID(users, ID) ==
  IF Len(users) < ID \/ ID <= 0
    THEN [RetErr("InvalidArgument") EXCEPT !.users = users]
    ELSE [RetUser(users[ID]) EXCEPT !.users = users]

\* ------------------------------------------------------------- state
VARIABLES
  db,           \* the handle NewUserDB returned: "none", "open" or "failed"
  file,         \* the backing file at db.path
  mux,          \* db.mux: 0 when free, else the caller holding it
  pc,           \* where each caller is in its call
  call,         \* the operation and arguments of each caller's call
  dbStructure,  \* each caller's loaded dbStructure.Users
  ret,          \* each caller's return values
  loads,        \* how many times each caller's call has loaded the file
  io,           \* the file accesses of the latest step of NewUserDB or of the lock's holder
  created       \* the IDs returned by the successful CreateUser calls, in order

vars == <<db, file, mux, pc, call, dbStructure, ret, loads, io, created>>

\* A file access by a caller (0: NewUserDB), and whether the caller held db.mux.
Access(kind, by, result) ==
  [kind |-> kind, by |-> by, result |-> result, locked |-> by # 0 /\ mux = by]

Init ==
  /\ db = "none"
  /\ file = MissingFile
  /\ mux = 0
  /\ pc = [p \in Procs |-> "idle"]
  /\ call = [p \in Procs |-> NoCall]
  /\ dbStructure = [p \in Procs |-> EmptyDB]
  /\ ret = [p \in Procs |-> NoRet]
  /\ loads = [p \in Procs |-> 0]
  /\ io = <<>>
  /\ created = <<>>

\* A slip: ensureUserDB writing the empty document without looking for the file.
NewUserDBTruncate ==
  /\ \A p \in Procs : pc[p] = "idle"
  /\ \E outcome \in WriteOutcomes :
       /\ file' = WriteFile(file, EmptyDB, outcome)
       /\ db' = IF outcome = "ok" THEN "open" ELSE "failed"
       /\ io' = <<Access("write", 0, outcome)>>
  /\ mux' = 0
  /\ UNCHANGED <<pc, call, dbStructure, ret, loads, created>>

\* A slip: the error of ensureUserDB dropped, the handle returned regardless.
NewUserDBIgnoreErr ==
  /\ \A p \in Procs : pc[p] = "idle"
  /\ \E outcome \in WriteOutcomes :
       IF file.state = "missing"
         THEN /\ file' = WriteFile(file, EmptyDB, outcome)
              /\ db' = "open"
              /\ io' = <<Access("read", 0, "fail"), Access("write", 0, outcome)>>
         ELSE /\ outcome = "ok"
              /\ file' = file
              /\ db' = "open"
              /\ io' = <<Access("read", 0, "ok")>>
  /\ mux' = 0
  /\ UNCHANGED <<pc, call, dbStructure, ret, loads, created>>

\* NewUserDB with ensureUserDB, at the start of the program or of a later run
\* of it on the same path (no call of an earlier handle is running): a fresh
\* handle with a fresh mutex; the file is read, and written when it is missing.
NewUserDB ==
  /\ \A p \in Procs : pc[p] = "idle"
  /\ \E outcome \in WriteOutcomes :
       IF file.state = "missing"
         THEN /\ file' = WriteFile(file, EmptyDB, outcome)
              /\ db' = IF outcome = "ok" THEN "open" ELSE "failed"
              /\ io' = <<Access("read", 0, "fail"), Access("write", 0, outcome)>>
         ELSE /\ outcome = "ok"
              /\ file' = file
              /\ db' = "open"
              /\ io' = <<Access("read", 0, "ok")>>
  /\ mux' = 0
  /\ UNCHANGED <<pc, call, dbStructure, ret, loads, created>>

\* CreateUser calls still running.
CreatesInFlight == Cardinality({p \in Procs : pc[p] # "idle" /\ call[p].op = "CreateUser"})

\* A caller enters an operation of the handle.
Call(self, c) ==
  /\ db = "open"
  /\ pc[self] = "idle"
  /\ c.op = "CreateUser" =>
       /\ Cardinality(DOMAIN file.doc.users) + CreatesInFlight < MaxUsers
       /\ Len(created) + CreatesInFlight < MaxUsers
  /\ pc' = [pc EXCEPT ![self] = "lock"]
  /\ call' = [call EXCEPT ![self] = c]
  /\ UNCHANGED <<io, db, file, mux, dbStructure, ret, loads, created>>

\* A slip: db.mux.RLock(), which callers share.
RLock(self) ==
  /\ pc[self] = "lock"
  /\ mux' = self
  /\ pc' = [pc EXCEPT ![self] = "load"]
  /\ io' = <<>>
  /\ UNCHANGED <<db, file, call, dbStructure, ret, loads, created>>

\* db.mux.Lock(): blocks while another caller holds the lock.
Lock(self) ==
  /\ pc[self] = "lock"
  /\ mux = 0
  /\ mux' = self
  /\ pc' = [pc EXCEPT ![self] = "load"]
  /\ io' = <<>>
  /\ UNCHANGED <<db, file, call, dbStructure, ret, loads, created>>

\* A slip: the error of loadUserDB dropped, the body run on an empty document.
loadUserDBIgnoreErr(self) ==
  /\ pc[self] = "load"
  /\ loads' = [loads EXCEPT ![self] = @ + 1]
  /\ dbStructure' = [dbStructure EXCEPT ![self] =
                       IF file.state = "ok" THEN Unmarshal(file.doc) ELSE EmptyDB]
  /\ pc' = [pc EXCEPT ![self] = "body"]
  /\ ret' = ret
  /\ io' = <<Access("read", self, IF file.state = "ok" THEN "ok" ELSE "fail")>>
  /\ UNCHANGED <<db, file, mux, call, created>>

\* dbStructure, err := db.loadUserDB(); if err != nil { return ..., err }
loadUserDB(self) ==
  /\ pc[self] = "load"
  /\ loads' = [loads EXCEPT ![self] = @ + 1]
  /\ IF file.state = "ok"
       THEN /\ dbStructure' = [dbStructure EXCEPT ![self] = Unmarshal(file.doc)]
            /\ pc' = [pc EXCEPT ![self] = "body"]
            /\ ret' = ret
            /\ io' = <<Access("read", self, "ok")>>
       ELSE /\ dbStructure' = dbStructure
            /\ pc' = [pc EXCEPT ![self] = "unlock"]
            /\ ret' = [ret EXCEPT ![self] = RetErr("IOError")]
            /\ io' = <<Access("read", self, "fail")>>
  /\ UNCHANGED <<db, file, mux, call, created>>

\* err = db.writeUserDB(dbStructure) by a caller, and what the operation
\* returns: okRet after the write, the error otherwise.
writeUserDB(self, users, okRet) ==
  \E outcome \in WriteOutcomes :
    /\ dbStructure' = [dbStructure EXCEPT ![self] = users]
    /\ file' = WriteFile(file, users, outcome)
    /\ io' = <<Access("write", self, outcome)>>
    /\ ret' = [ret EXCEPT ![self] = IF outcome = "ok" THEN okRet ELSE RetErr("IOError")]

\* The body of CreateUser after the load.
CreateUser(self) ==
  /\ pc[self] = "body"
  /\ call[self].op = "CreateUser"
  /\ LET users == CreateUsers(dbStructure[self], call[self].body, call[self].password)
         new == users[NextID(dbStructure[self])]
     IN  /\ writeUserDB(self, users, RetUser(new))
         /\ created' = IF ret'[self].err = "nil" THEN Append(created, new.ID) ELSE created
  /\ pc' = [pc EXCEPT ![self] = "unlock"]
  /\ UNCHANGED <<db, mux, call, loads>>

\* The body of GetUser after the load: range over the map, then sort by ID.
GetUser(self) ==
  /\ pc[self] = "body"
  /\ call[self].op \in {"GetUser", "GetUserByID"}
  /\ \E o \in RangeOrders(dbStructure[self]) :
       ret' = [ret EXCEPT ![self] = RetUsers(RangedUsers(dbStructure[self], o))]
  /\ pc' = [pc EXCEPT ![self] = "unlock"]
  /\ io' = <<>>
  /\ UNCHANGED <<db, file, mux, call, dbStructure, loads, created>>

\* The body of UpdateUserDB after the load.
UpdateUserDB(self) ==
  /\ pc[self] = "body"
  /\ call[self].op = "UpdateUserDB"
  /\ LET users == UpdateUsers(dbStructure[self], call[self].ID,
                              call[self].body, call[self].password)
     IN  writeUserDB(self, users, RetUser(MapGet(users, call[self].ID)))
  /\ pc' = [pc EXCEPT ![self] = "unlock"]
  /\ UNCHANGED <<db, mux, call, loads, created>>

\* A slip: an absent ID passed over in silence, as the token operations do.
UpgradeUserSilent(self) ==
  /\ pc[self] = "body"
  /\ call[self].op = "UpgradeUser"
  /\ writeUserDB(self,
                 IF call[self].ID \in DOMAIN dbStructure[self]
                   THEN UpgradeUsers(dbStructure[self], call[self].ID)
                   ELSE dbStructure[self],
                 RetErr("nil"))
  /\ pc' = [pc EXCEPT ![self] = "unlock"]
  /\ UNCHANGED <<db, mux, call, loads, created>>

\* The body of UpgradeUser after the load.
UpgradeUser(self) ==
  /\ pc[self] = "body"
  /\ call[self].op = "UpgradeUser"
  /\ IF call[self].ID \in DOMAIN dbStructure[self]
       THEN writeUserDB(self, UpgradeUsers(dbStructure[self], call[self].ID), RetErr("nil"))
       ELSE /\ ret' = [ret EXCEPT ![self] = RetErr("NotFound")]
            /\ io' = <<>>
            /\ UNCHANGED <<dbStructure, file>>
  /\ pc' = [pc EXCEPT ![self] = "unlock"]
  /\ UNCHANGED <<db, mux, call, loads, created>>

\* The body of RevokeToken after the load.
RevokeToken(self) ==
  /\ pc[self] = "body"
  /\ call[self].op = "RevokeToken"
  /\ writeUserDB(self, RevokeUsers(dbStructure[self], call[self].ID), RetErr("nil"))
  /\ pc' = [pc EXCEPT ![self] = "unlock"]
  /\ UNCHANGED <<db, mux, call, loads, created>>

\* The body of StoreToken after the load.
StoreToken(self) ==
  /\ pc[self] = "body"
  /\ call[self].op = "StoreToken"
  /\ writeUserDB(self, StoreUsers(dbStructure[self], call[self].ID, call[self].token),
                 RetErr("nil"))
  /\ pc' = [pc EXCEPT ![self] = "unlock"]
  /\ UNCHANGED <<db, mux, call, loads, created>>

\* A slip: db.mux.Unlock() called at the end of the body instead of deferred,
\* so that the returns with an error leave the lock held.
UnlockOnSuccess(self) ==
  /\ pc[self] = "unlock"
  /\ call[self].op # "GetUserByID"
  /\ mux' = IF ret[self].err = "nil" THEN 0 ELSE mux
  /\ io' = <<>>
  /\ pc' = [pc EXCEPT ![self] = "idle"]
  /\ call' = [call EXCEPT ![self] = NoCall]
  /\ ret' = [ret EXCEPT ![self] = NoRet]
  /\ loads' = [loads EXCEPT ![self] = 0]
  /\ dbStructure' = [dbStructure EXCEPT ![self] = EmptyDB]
  /\ UNCHANGED <<db, file, created>>

\* defer db.mux.Unlock(): runs once the return values are set, and the caller
\* has its result.
Unlock(self) ==
  /\ pc[self] = "unlock"
  /\ call[self].op # "GetUserByID"
  /\ mux' = 0
  /\ io' = <<>>
  /\ pc' = [pc EXCEPT ![self] = "idle"]
  /\ call' = [call EXCEPT ![self] = NoCall]
  /\ ret' = [ret EXCEPT ![self] = NoRet]
  /\ loads' = [loads EXCEPT ![self] = 0]
  /\ dbStructure' = [dbStructure EXCEPT ![self] = EmptyDB]
  /\ UNCHANGED <<db, file, created>>

\* GetUserByID once db.GetUser() returns: GetUser's deferred Unlock runs, then
\* the list it returned is indexed, outside the lock.
GetUserByID(self) ==
  /\ pc[self] = "unlock"
  /\ call[self].op = "GetUserByID"
  /\ mux' = 0
  /\ io' = <<>>
  /\ ret' = [ret EXCEPT ![self] =
               IF ret[self].err # "nil" THEN RetErr(ret[self].err)
               ELSE IndexByID(ret[self].users, call[self].ID)]
  /\ pc' = [pc EXCEPT ![self] = "done"]
  /\ dbStructure' = [dbStructure EXCEPT ![self] = EmptyDB]
  /\ UNCHANGED <<db, file, call, loads, created>>

\* The caller of GetUserByID takes its result.
Return(self) ==
  /\ pc[self] = "done"
  /\ pc' = [pc EXCEPT ![self] = "idle"]
  /\ call' = [call EXCEPT ![self] = NoCall]
  /\ ret' = [ret EXCEPT ![self] = NoRet]
  /\ loads' = [loads EXCEPT ![self] = 0]
  /\ UNCHANGED <<io, db, file, mux, dbStructure, created>>

Step(self) ==
  \/ Lock(self)
  \/ loadUserDB(self)
  \/ CreateUser(self)
  \/ GetUser(self)
  \/ UpdateUserDB(self)
  \/ UpgradeUser(self)
  \/ RevokeToken(self)
  \/ StoreToken(self)
  \/ Unlock(self)
  \/ GetUserByID(self)
  \/ Return(self)

\* One caller at a time.
Next ==
  \/ NewUserDB
  \/ \E c \in Calls : Call(1, c)
  \/ Step(1)

Spec == Init /\ [][Next]_vars

\* Several callers on the one handle.
ConcNext ==
  \/ NewUserDB
  \/ \E self \in Procs :
       \/ \E c \in ConcCalls : Call(self, c)
       \/ Step(self)

ConcSpec == Init /\ [][ConcNext]_vars

\* A record of a file that was there before NewUserDB, under key k.
PreUser(k) ==
  [Email |-> "b", ID |-> k, Password |-> <<200, 9>>, RefreshToken |-> "t",
   IsChirpyRed |-> TRUE]

\* The files NewUserDB may find at its path and every load accepts: a document
\* of any keys, dense from 1 or not.
PreFiles ==
  {OkFile([k \in K |-> PreUser(k)]) :
     K \in {K \in SUBSET (1..(MaxUsers + 1)) : Cardinality(K) <= MaxUsers}}

PreInit ==
  /\ db = "none"
  /\ file \in PreFiles
  /\ mux = 0
  /\ pc = [p \in Procs |-> "idle"]
  /\ call = [p \in Procs |-> NoCall]
  /\ dbStructure = [p \in Procs |-> EmptyDB]
  /\ ret = [p \in Procs |-> NoRet]
  /\ loads = [p \in Procs |-> 0]
  /\ io = <<>>
  /\ created = <<>>

\* One caller at a time, on a store opened on a file that was there.
PreNext ==
  \/ NewUserDB
  \/ \E c \in ConcCalls : Call(1, c)
  \/ Step(1)

PreSpec == PreInit /\ [][PreNext]_vars

\* Several callers, each running on once it can, and db.mux handing the lock to
\* a caller that keeps waiting for it (sync.Mutex gives a waiter of more than
\* 1ms the lock next).
FairConcSpec ==
  /\ ConcSpec
  /\ \A self \in Procs : WF_vars(Step(self)) /\ SF_vars(Lock(self))

TypeOK ==
  /\ db \in {"none", "open", "failed"}
  /\ file.state \in {"missing", "corrupt", "ok"}
  /\ mux \in 0..NumProcs
  /\ \A p \in Procs : pc[p] \in {"idle", "lock", "load", "body", "unlock", "done"}

\* ------------------------------------------------------------- properties
\* The document the file holds.
Doc == Unmarshal(file.doc)

\* Caller p takes the step that runs the body of its operation.
BodyStep(p) == pc[p] = "body" /\ pc'[p] = "unlock"

\* The write of the latest step succeeded.
WriteOk(accesses) ==
  Len(accesses) = 1 /\ accesses[1].kind = "write" /\ accesses[1].result = "ok"

\* s lists every record of the map users exactly once, in strictly ascending
\* order of the ID field.
IsListOf(s, users) ==
  /\ \E o \in RangeOrders(users) : s = [i \in DOMAIN o |-> users[o[i]]]
  /\ \A i, j \in DOMAIN s : i < j => s[i].ID < s[j].ID

\* C1: from a store opened on a missing file, after N successful CreateUser
\* calls the document holds exactly the keys 1..N, the k-th successful call
\* returned ID k, and the record a CreateUser returns is the one stored under
\* the count of the records before the insert plus one.
C1_CreateAssignsIDs ==
  /\ file.state = "ok" =>
       /\ DOMAIN Doc = 1..Len(created)
       /\ \A k \in 1..Len(created) : created[k] = k /\ Doc[k].ID = k
  /\ \A p \in Procs :
       pc[p] = "unlock" /\ call[p].op = "CreateUser" /\ ret[p].err = "nil" =>
         /\ ret[p].user.ID = Len(created)
         /\ ret[p].user = Doc[Len(created)]
         /\ ret[p].user.Email = call[p].body
         /\ ret[p].user.Password = call[p].password

C1_Witness ==
  /\ Len(created) = MaxUsers
  /\ pc[1] = "unlock" /\ call[1].op = "CreateUser"
  /\ ret[1].err = "nil" /\ ret[1].user.ID = MaxUsers
  /\ DOMAIN Doc = 1..MaxUsers

\* A caller between db.mux.Lock() and the deferred db.mux.Unlock().
Holding(p) == pc[p] \in {"load", "body", "unlock"}

\* C2: at most one caller is between its Lock and its Unlock, that caller
\* holds db.mux, and the document it loaded is still the one in the file when
\* it runs its body (no other operation wrote in between).
C2_MutualExclusion ==
  /\ \A p, q \in Procs : Holding(p) /\ Holding(q) => p = q
  /\ \A p \in Procs : Holding(p) => mux = p
  /\ \A p \in Procs : pc[p] = "body" => file.state = "ok" /\ dbStructure[p] = Doc

C2_Witness ==
  \E p, q \in Procs :
    /\ p # q
    /\ pc[p] = "body" /\ call[p].op = "UpdateUserDB"
    /\ pc[q] = "lock"

\* What an operation run alone does to a document, and what it returns.
SeqUsers(users, c) ==
  CASE c.op = "CreateUser" -> CreateUsers(users, c.body, c.password)
    [] c.op = "UpdateUserDB" -> UpdateUsers(users, c.ID, c.body, c.password)
    [] c.op = "UpgradeUser" ->
         IF c.ID \in DOMAIN users THEN UpgradeUsers(users, c.ID) ELSE users
    [] c.op = "RevokeToken" -> RevokeUsers(users, c.ID)
    [] c.op = "StoreToken" -> StoreUsers(users, c.ID, c.token)
    [] OTHER -> users

SeqWrites(users, c) ==
  /\ c.op \notin {"GetUser", "GetUserByID"}
  /\ c.op = "UpgradeUser" => c.ID \in DOMAIN users

SeqRet(users, c) ==
  CASE c.op = "CreateUser" -> RetUser(SeqUsers(users, c)[Cardinality(DOMAIN users) + 1])
    [] c.op = "UpdateUserDB" -> RetUser(MapGet(SeqUsers(users, c), c.ID))
    [] c.op = "UpgradeUser" ->
         IF c.ID \in DOMAIN users THEN RetErr("nil") ELSE RetErr("NotFound")
    [] OTHER -> RetErr("nil")

\* C3: every operation acts as if run alone on the document the file holds
\* at the step of its body, so the calls take effect one after the other in
\* the order of those steps: the file and the return values are those of the
\* operation applied to the current document (a failed write apart). Hence
\* no insert is lost: the successful CreateUser calls returned pairwise
\* distinct IDs, one per record of the document.
C3_Linearizable ==
  /\ [](file.state = "ok" =>
          /\ Cardinality(DOMAIN Doc) = Len(created)
          /\ \A i, j \in DOMAIN created : i # j => created[i] # created[j])
  /\ [][\A p \in Procs :
          BodyStep(p) =>
            /\ file.state = "ok"
            /\ IF SeqWrites(Doc, call[p])
                 THEN \E outcome \in WriteOutcomes :
                        /\ file' = WriteFile(file, SeqUsers(Doc, call[p]), outcome)
                        /\ ret'[p] = IF outcome = "ok" THEN SeqRet(Doc, call[p])
                                     ELSE RetErr("IOError")
                 ELSE /\ file' = file
                      /\ IF call[p].op = "UpgradeUser"
                           THEN ret'[p] = RetErr("NotFound")
                           ELSE ret'[p].err = "nil" /\ IsListOf(ret'[p].users, Doc)]_vars

C3_Witness ==
  \E p, q \in Procs :
    /\ p # q
    /\ pc[p] = "unlock" /\ call[p].op = "StoreToken" /\ ret[p].err = "nil"
    /\ pc[q] = "lock" /\ call[q].op = "UpdateUserDB" /\ call[q].ID = call[p].ID
    /\ call[p].ID \in DOMAIN Doc
    /\ Doc[call[p].ID].RefreshToken = call[p].token

\* C4 as claimed: every read and every write of the file, those of NewUserDB
\* included, happens with db.mux held.
C4_EveryAccessLocked == \A i \in DOMAIN io : io[i].locked

\* C4, amended: every read and every write of the file by an operation of the
\* handle happens with db.mux held by the calling operation, and the accesses
\* of NewUserDB (ensureUserDB) are the ones made without it.
C4_OperationsAccessLocked == \A i \in DOMAIN io : io[i].locked <=> io[i].by # 0

C4_Witness ==
  \E p, q \in Procs :
    /\ p # q
    /\ Len(io) = 1 /\ io[1].kind = "write" /\ io[1].by = p /\ io[1].locked
    /\ pc[q] = "lock"

\* C5: GetUserByID(ID) on a loaded document of N records returns, for ID in
\* 1..N, the record at position ID-1 of the list GetUser returned (ret.users
\* counts from 1, the Go slice from 0), which lists the document in ascending
\* order of ID; for ID <= 0 and for ID > N it returns the invalid-ID error and
\* the empty record.
C5_GetByIDIndexesList ==
  \A p \in Procs :
    pc[p] = "done" /\ ret[p].err # "IOError" =>
      LET id == call[p].ID
          N == Cardinality(DOMAIN Doc)
      IN  /\ IsListOf(ret[p].users, Doc)
          /\ id \in 1..N => ret[p].err = "nil" /\ ret[p].user = ret[p].users[id]
          /\ id <= 0 \/ id > N =>
               ret[p].err = "InvalidArgument" /\ ret[p].user = EmptyUser

C5_Witness ==
  /\ pc[1] = "done" /\ call[1].ID = MaxUsers
  /\ ret[1].err = "nil" /\ ret[1].user.ID = MaxUsers
  /\ Len(ret[1].users) = MaxUsers

\* C6: the list GetUser returns holds every record of the document exactly
\* once, in strictly ascending order of ID, whatever the order in which the
\* map was ranged over, and the call loaded the document once.
C6_ListAllSorted ==
  \A p \in Procs :
    pc[p] = "unlock" /\ call[p].op \in {"GetUser", "GetUserByID"} /\ ret[p].err = "nil" =>
      /\ IsListOf(ret[p].users, Doc)
      /\ Len(ret[p].users) = Cardinality(DOMAIN Doc)
      /\ loads[p] = 1

C6_Witness ==
  /\ pc[1] = "unlock" /\ call[1].op = "GetUser" /\ ret[1].err = "nil"
  /\ Len(ret[1].users) = MaxUsers

\* C7: UpdateUserDB on an ID of the document, its write done, changes the
\* email and the password of the record under that ID and nothing else of it,
\* leaves the key set and every other record as they were, and returns the
\* updated record.
C7_UpdatePresent ==
  [][\A p \in Procs :
       /\ BodyStep(p) /\ call[p].op = "UpdateUserDB"
       /\ call[p].ID \in DOMAIN Doc
       /\ WriteOk(io')
       => /\ file'.state = "ok"
          /\ DOMAIN Doc' = DOMAIN Doc
          /\ \A k \in DOMAIN Doc \ {call[p].ID} : Doc'[k] = Doc[k]
          /\ Doc'[call[p].ID] = [Doc[call[p].ID] EXCEPT !.Email = call[p].body,
                                                        !.Password = call[p].password]
          /\ ret'[p] = RetUser(Doc'[call[p].ID])]_vars

C7_Witness ==
  /\ pc[1] = "unlock" /\ call[1].op = "UpdateUserDB" /\ ret[1].err = "nil"
  /\ call[1].ID \in DOMAIN Doc
  /\ Cardinality(DOMAIN Doc) = MaxUsers
  /\ ret[1].user.Email = call[1].body
  /\ ret[1].user.RefreshToken # "" /\ ret[1].user.IsChirpyRed

\* C8: UpdateUserDB on an ID absent from the document still writes the
\* document, never reports the absence, and, its write done, returns no error
\* and the empty record and leaves the key set and every record as they were.
C8_UpdateAbsent ==
  [][\A p \in Procs :
       /\ BodyStep(p) /\ call[p].op = "UpdateUserDB"
       /\ call[p].ID \notin DOMAIN Doc
       => /\ Len(io') = 1 /\ io'[1].kind = "write" /\ io'[1].by = p
          /\ ret'[p].err \in {"nil", "IOError"}
          /\ WriteOk(io') =>
               /\ ret'[p] = RetUser(EmptyUser)
               /\ file'.state = "ok"
               /\ Doc' = Doc]_vars

C8_Witness ==
  /\ pc[1] = "unlock" /\ call[1].op = "UpdateUserDB" /\ ret[1].err = "nil"
  /\ call[1].ID \notin DOMAIN Doc
  /\ WriteOk(io)
  /\ Cardinality(DOMAIN Doc) = MaxUsers
  /\ ret[1].user = EmptyUser

\* C9: UpgradeUser on an ID of the document, its write done, sets the
\* upgraded flag of that record and changes nothing else; on a record already
\* upgraded it leaves the document as it was (a second call changes nothing).
C9_UpgradePresent ==
  [][\A p \in Procs :
       /\ BodyStep(p) /\ call[p].op = "UpgradeUser"
       /\ call[p].ID \in DOMAIN Doc
       /\ WriteOk(io')
       => /\ file'.state = "ok"
          /\ Doc' = [Doc EXCEPT ![call[p].ID].IsChirpyRed = TRUE]
          /\ ret'[p] = RetErr("nil")
          /\ Doc[call[p].ID].IsChirpyRed => Doc' = Doc]_vars

C9_Witness ==
  /\ pc[1] = "unlock" /\ call[1].op = "UpgradeUser" /\ ret[1].err = "nil"
  /\ WriteOk(io)
  /\ Cardinality(DOMAIN Doc) = MaxUsers
  /\ Doc[call[1].ID].IsChirpyRed /\ Doc[call[1].ID].RefreshToken # ""

\* C10: UpgradeUser on an ID absent from the document returns the not-found
\* error, writes nothing and leaves the file as it was, while UpdateUserDB,
\* RevokeToken and StoreToken never report an absent ID.
C10_UpgradeAbsent ==
  [][\A p \in Procs :
       /\ BodyStep(p) /\ call[p].ID \notin DOMAIN Doc
       => /\ call[p].op = "UpgradeUser" =>
               ret'[p] = RetErr("NotFound") /\ io' = <<>> /\ file' = file
          /\ call[p].op \in {"UpdateUserDB", "RevokeToken", "StoreToken"} =>
               ret'[p].err # "NotFound"]_vars

C10_Witness ==
  /\ pc[1] = "unlock" /\ call[1].op = "UpgradeUser" /\ ret[1].err = "NotFound"
  /\ io = <<>>
  /\ Cardinality(DOMAIN Doc) = MaxUsers

\* C11: StoreToken on an ID of the document, its write done, sets the refresh
\* token of the record under that ID to the token given and changes no other
\* field and no other record; on an absent ID it never reports the absence
\* and, its write done, returns no error and leaves the key set and every
\* record as they were.
C11_StoreToken ==
  [][\A p \in Procs :
       BodyStep(p) /\ call[p].op = "StoreToken" =>
         /\ ret'[p].err \in {"nil", "IOError"}
         /\ WriteOk(io') =>
              /\ ret'[p] = RetErr("nil")
              /\ file'.state = "ok"
              /\ DOMAIN Doc' = DOMAIN Doc
              /\ \A k \in DOMAIN Doc :
                   Doc'[k] = IF k = call[p].ID
                               THEN [Doc[k] EXCEPT !.RefreshToken = call[p].token]
                               ELSE Doc[k]]_vars

C11_Witness ==
  /\ pc[1] = "unlock" /\ call[1].op = "StoreToken" /\ ret[1].err = "nil"
  /\ WriteOk(io)
  /\ Cardinality(DOMAIN Doc) = MaxUsers
  /\ call[1].ID \in DOMAIN Doc
  /\ Doc[call[1].ID].RefreshToken = call[1].token
  /\ Doc[call[1].ID].IsChirpyRed
  /\ \E k \in DOMAIN Doc : Doc[k].RefreshToken = ""

\* C12: RevokeToken on an ID of the document, its write done, sets the
\* refresh token of the record under that ID to the empty string, whatever it
\* was (stored before or already empty), and changes no other field and no
\* other record; on an absent ID it never reports the absence and, its write
\* done, returns no error and leaves the key set and every record as they were.
C12_RevokeToken ==
  [][\A p \in Procs :
       BodyStep(p) /\ call[p].op = "RevokeToken" =>
         /\ ret'[p].err \in {"nil", "IOError"}
         /\ WriteOk(io') =>
              /\ ret'[p] = RetErr("nil")
              /\ file'.state = "ok"
              /\ DOMAIN Doc' = DOMAIN Doc
              /\ \A k \in DOMAIN Doc :
                   Doc'[k] = IF k = call[p].ID
                               THEN [Doc[k] EXCEPT !.RefreshToken = ""]
                               ELSE Doc[k]
              /\ call[p].ID \in DOMAIN Doc /\ Doc[call[p].ID].RefreshToken = "" =>
                   Doc' = Doc]_vars

C12_Witness ==
  /\ pc[1] = "unlock" /\ call[1].op = "RevokeToken" /\ ret[1].err = "nil"
  /\ WriteOk(io)
  /\ Cardinality(DOMAIN Doc) = MaxUsers
  /\ call[1].ID \in DOMAIN Doc
  /\ Doc[call[1].ID].RefreshToken = ""
  /\ Doc[call[1].ID].IsChirpyRed
  /\ \E k \in DOMAIN Doc : Doc[k].RefreshToken # ""

\* The step is a run of NewUserDB.
OpenStep == io' # io /\ Len(io') > 0 /\ io'[1].by = 0

\* C13: NewUserDB on a path whose file exists does not write the file and
\* leaves it as it was, so that every later load gives what a load gave
\* before; and the document a load gives after a write is the written one,
\* equal in every field (ID, email, password bytes, refresh token, flag).
C13_ReopenLossless ==
  /\ [](\A p \in Procs :
          pc[p] = "unlock" /\ WriteOk(io) =>
            file.state = "ok" /\ Unmarshal(file.doc) = dbStructure[p])
  /\ [][OpenStep /\ file.state # "missing" =>
          /\ file' = file
          /\ db' = "open"
          /\ \A i \in DOMAIN io' : io'[i].kind = "read"]_vars

C13_Witness ==
  /\ db = "open"
  /\ Len(io) = 1 /\ io[1].by = 0 /\ io[1].kind = "read" /\ io[1].result = "ok"
  /\ Cardinality(DOMAIN Doc) = MaxUsers
  /\ \E k \in DOMAIN Doc :
       Doc[k].Password = <<200, 9>> /\ Doc[k].RefreshToken = "t" /\ Doc[k].IsChirpyRed

\* C14: NewUserDB on a path with no file writes the empty document and
\* returns a handle, or, the write failing, returns no handle (no operation
\* ever runs without one); on the store so created the document has no record
\* until a CreateUser succeeds, GetUser returns the empty list till then, and
\* the first successful CreateUser returns ID 1.
C14_OpenCreatesEmpty ==
  /\ [](db # "open" => \A p \in Procs : pc[p] = "idle")
  /\ [](file.state = "ok" /\ created = <<>> => DOMAIN Doc = {})
  /\ [](\A p \in Procs :
          /\ pc[p] = "unlock" /\ call[p].op = "GetUser" /\ ret[p].err = "nil"
          /\ created = <<>>
          => ret[p].users = <<>>)
  /\ [](created # <<>> => created[1] = 1)
  /\ [][OpenStep /\ file.state = "missing" =>
          /\ Len(io') = 2 /\ io'[1].kind = "read" /\ io'[2].kind = "write"
          /\ io'[2].result = "ok" => file' = OkFile(EmptyDB) /\ db' = "open"
          /\ io'[2].result # "ok" => db' = "failed" /\ file'.state # "ok"]_vars

C14_Witness ==
  /\ db = "open"
  /\ Len(io) = 2 /\ io[2].by = 0 /\ io[2].kind = "write" /\ io[2].result = "ok"
  /\ file = OkFile(EmptyDB)
  /\ created = <<>>

\* C15 as claimed: on every document the store loads, a document of a file
\* that was there with keys other than 1..N included, a CreateUser whose write
\* is done has returned an ID that was no key of the document, the document
\* has one record more, and every record it had is still there, unchanged.
C15_CreateUniqueID ==
  [][\A p \in Procs :
       BodyStep(p) /\ call[p].op = "CreateUser" /\ WriteOk(io') =>
         /\ ret'[p].user.ID \notin DOMAIN Doc
         /\ Cardinality(DOMAIN Doc') = Cardinality(DOMAIN Doc) + 1
         /\ \A k \in DOMAIN Doc : k \in DOMAIN Doc' /\ Doc'[k] = Doc[k]]_vars

\* The load of caller p's call has just failed.
LoadFailed(p) ==
  /\ pc[p] = "unlock"
  /\ Len(io) = 1 /\ io[1].kind = "read" /\ io[1].by = p /\ io[1].result = "fail"

\* C16: the load failing (the file not a readable document), the operation,
\* whichever it is, goes to its return with IOError and an empty result
\* without touching the file; it has loaded once, writes nothing, and returns
\* that error to its caller, the file as it was.
C16_LoadFailure ==
  /\ [](\A p \in Procs : loads[p] <= 1)
  /\ [](\A p \in Procs : LoadFailed(p) => ret[p] = RetErr("IOError") /\ loads[p] = 1)
  /\ [][\A p \in Procs :
          pc[p] = "load" /\ pc'[p] # "load" /\ file.state # "ok" =>
            /\ pc'[p] = "unlock"
            /\ ret'[p] = RetErr("IOError")
            /\ file' = file
            /\ \A i \in DOMAIN io' : io'[i].kind = "read"]_vars
  /\ [][\A p \in Procs :
          LoadFailed(p) /\ pc'[p] # "unlock" =>
            /\ file' = file
            /\ \A i \in DOMAIN io' : io'[i].kind # "write"
            /\ pc'[p] = IF call[p].op = "GetUserByID" THEN "done" ELSE "idle"
            /\ pc'[p] = "done" => ret'[p] = RetErr("IOError")]_vars

C16_Witness ==
  /\ LoadFailed(1)
  /\ call[1].op = "UpdateUserDB"
  /\ file.state = "corrupt"
  /\ ret[1] = RetErr("IOError")

\* C17: on a store opened on a missing file, callers interleaving as they
\* may, every record of the document in the file, and of every document a
\* caller has loaded or changed, has as ID the key it is stored under.
C17_IDEqualsKey ==
  /\ \A k \in DOMAIN Doc : Doc[k].ID = k
  /\ \A p \in Procs : \A k \in DOMAIN dbStructure[p] : dbStructure[p][k].ID = k

C17_Witness ==
  /\ file.state = "ok"
  /\ Cardinality(DOMAIN Doc) = MaxUsers
  /\ Doc[1].Email = "b"
  /\ pc[1] = "unlock" /\ call[1].op = "CreateUser" /\ ret[1].err = "nil"
  /\ pc[2] = "lock" /\ call[2].op = "UpdateUserDB"

\* C18: on a store opened on a missing file the keys of the document are
\* 1..N, N the number of records, and a GetUserByID(ID) that returns no error
\* returns the record whose ID is ID, the record stored under key ID.
C18_DenseKeys ==
  /\ DOMAIN Doc = 1..Cardinality(DOMAIN Doc)
  /\ \A p \in Procs :
       pc[p] = "done" /\ call[p].op = "GetUserByID" /\ ret[p].err = "nil" =>
         /\ ret[p].user.ID = call[p].ID
         /\ call[p].ID \in DOMAIN Doc
         /\ ret[p].user = Doc[call[p].ID]

C18_Witness ==
  /\ pc[1] = "done"
  /\ call[1].op = "GetUserByID"
  /\ ret[1].err = "nil"
  /\ call[1].ID = MaxUsers
  /\ ret[1].user.ID = MaxUsers

\* C19: db.mux is held by a caller only between its Lock and its return, on
\* every path (the load failed, the write failed, UpgradeUser found no
\* record, or all went well); GetUserByID holds it once, through GetUser, and
\* not again after GetUser returned; while a call is running some caller can
\* step; and with callers that run on and a lock that serves its waiters,
\* every call returns.
C19_LockReleased ==
  /\ [](\A p \in Procs : mux = p <=> Holding(p))
  /\ [][\A p \in Procs : pc[p] = "done" => pc'[p] \in {"done", "idle"} /\ mux' # p]_vars
  /\ []((\E p \in Procs : pc[p] # "idle") => \E p \in Procs : ENABLED Step(p))
  /\ \A p \in Procs : (pc[p] # "idle") ~> (pc[p] = "idle")

C19_Witness ==
  /\ pc[1] = "unlock"
  /\ call[1].op = "UpgradeUser"
  /\ ret[1].err = "NotFound"
  /\ mux = 1
  /\ pc[2] = "lock"

\* C20 as claimed: from any state to the next, whatever the step, no key of
\* the document in the file disappears (so the records never get fewer) and
\* a record whose flag is true keeps it true.
C20_NeverLost ==
  [][\A k \in DOMAIN Doc :
       k \in DOMAIN Doc' /\ (Doc[k].IsChirpyRed => Doc'[k].IsChirpyRed)]_vars

\* C20: a CreateUser whose write is done has stored and returned a record
\* with the flag false and the refresh token empty; and from any state to the
\* next, the file a readable document in both, no key disappears and a record
\* whose flag is true keeps it true. (A write failing after it truncated the
\* file leaves no readable document.)
C20_MonotoneWhileReadable ==
  /\ [][\A p \in Procs :
          BodyStep(p) /\ call[p].op = "CreateUser" /\ WriteOk(io') =>
            /\ ~ret'[p].user.IsChirpyRed /\ ret'[p].user.RefreshToken = ""
            /\ Doc'[ret'[p].user.ID] = ret'[p].user]_vars
  /\ [][file.state = "ok" /\ file'.state = "ok" /\ file' # file =>
          \A k \in DOMAIN Doc :
            k \in DOMAIN Doc' /\ (Doc[k].IsChirpyRed => Doc'[k].IsChirpyRed)]_vars

C20_Witness ==
  /\ pc[1] = "unlock"
  /\ call[1].op = "UpdateUserDB"
  /\ WriteOk(io)
  /\ Cardinality(DOMAIN Doc) = MaxUsers
  /\ call[1].ID \in DOMAIN Doc
  /\ Doc[call[1].ID].IsChirpyRed
  /\ Doc[call[1].ID].Email = call[1].body

====
